---- MODULE Spec2Model ----
(***************************************************************************)
(* The dataset partitioner of the methane-absorption competition: the      *)
(* notebook that loads the raw table, drops the unused columns, carves out *)
(* the held-out rows, writes solution.csv, test.csv and                    *)
(* sample_submission.csv, injects NaNs into the remaining rows and writes  *)
(* train.csv.  One action per statement of the notebook; every random draw *)
(* is a nondeterministic choice over the outcomes numpy can return.        *)
(*                                                                         *)
(* The row and sample counts of the notebook (100 held-out rows, the 15    *)
(* largest, the 5 skipped, the 5 sampled, the 0.125 fraction) are far      *)
(* beyond what can be enumerated, so the model keeps their roles and       *)
(* scales their sizes: they are the bounds HeldOutSize, TopCount,          *)
(* SkipCount, GreatCount and NanDivisor below.                             *)
(***************************************************************************)
EXTENDS Integers, Sequences, FiniteSets, TLC

VARIABLES pc, error, table, df, df_len, best_row, great_rows, best_rows,
          additional_rows, combined_indices, df_test, files,
          float64_columns, nan_indices, loop_i, num_nans, nan_columns,
          rerun, draws

vars == <<pc, error, table, df, df_len, best_row, great_rows, best_rows,
          additional_rows, combined_indices, df_test, files,
          float64_columns, nan_indices, loop_i, num_nans, nan_columns,
          rerun, draws>>

---------------------------------------------------------------------------
(* Bounds: the notebook's sizes, scaled.                                   *)

\* rows of the input table: MinRows..MaxRows
MinRows == 2
MaxRows == 8
\* size of the held-out set (100 in the notebook)
HeldOutSize == 4
\* nlargest(15, ...): how many of the largest rows are ranked
TopCount == 4
\* [5:]: how many of the top ranks are skipped
SkipCount == 2
\* .sample(5): how many great rows are drawn
GreatCount == 1
\* int(0.125 * len(df)): the fraction 1/8 as a divisor
NanDivisor == 2

---------------------------------------------------------------------------
(* The schema of ./data/dataset.csv.                                       *)

IndexColumn == "Unnamed: 0"

categorical_features ==
  <<"bond_type", "dimensions", "linkerA", "linkerB", "net",
    "chemical_formula", "vertices", "edges", "genus">>

target_variables ==
  <<"heatDesorptionHigh", "heatDesorptionHigh_Error", "highUptake_molec",
    "highUptakeError_molec", "highUptakeError_mol", "heatDesorptionLow",
    "heatDesorptionLow_error", "lowUptake_molec", "lowUptakeError_molec",
    "lowUptake_mol", "lowUptakeError_mol", "surface_area", "del_capacity">>

Target == "highUptake_mol"

\* the feature columns that remain after cleaning, with the type pandas
\* infers for each: a measured quantity and an atom count
FeatureColumns == <<"voidFraction", "num_carbon">>

FileNames == {"solution.csv", "test.csv", "sample_submission.csv", "train.csv"}

\* np.nan in a cell of the frame (every real cell value is >= 0)
NaN == -1

Range(s) == {s[i] : i \in 1..Len(s)}

\* the columns of the complete input file, in file order
RawColumns ==
  <<IndexColumn>> \o categorical_features \o FeatureColumns \o target_variables
    \o <<Target>>

\* the dtype read_csv infers for a column of the input
RawDtype(c) ==
  IF c \in Range(categorical_features) THEN "object"
  ELSE IF c \in {IndexColumn, "num_carbon"} THEN "int64"
  ELSE "float64"

\* the target columns the input may hold: all values different (the largest
\* in the last row), every odd row sharing the largest value, and all rows
\* equal
TargetShapes == {"ascending", "tiedTop", "allTied"}

\* the value of the target column in row i of a table of n rows
TargetValue(shape, i, n) ==
  CASE shape = "ascending" -> i + 1
    [] shape = "tiedTop"   -> IF i % 2 = 1 THEN n ELSE i + 1
    [] shape = "allTied"   -> n

\* the value of any other column in row i
CellValue(c, i) ==
  IF c = IndexColumn THEN i
  ELSE IF c = "voidFraction" THEN 10 + i
  ELSE IF c = "num_carbon" THEN 20 + (i % 3)
  ELSE 0

---------------------------------------------------------------------------
(* Data frames: the column labels in order, the dtype of each column, the  *)
(* index labels in row order, and the cells by index label and column.     *)

NoFrame == [columns |-> << >>, dtypes |-> << >>, index |-> << >>, data |-> << >>]

\* pd.read_csv of a file of n rows whose header is `columns`: a RangeIndex
\* 0..n-1 and one inferred dtype per column
ReadCsv(columns, n, shape) ==
  [columns |-> columns,
   dtypes  |-> [c \in Range(columns) |-> RawDtype(c)],
   index   |-> [i \in 1..n |-> i - 1],
   data    |-> [l \in 0..(n - 1) |->
                 [c \in Range(columns) |->
                    IF c = Target THEN TargetValue(shape, l, n)
                    ELSE CellValue(c, l)]]]

\* the drop as if its result were discarded (no inplace=True, no assignment)
DropColumns_KeepsAll(d, cols) == d

\* df.drop(cols, axis=1): the frame without the columns `cols`
DropColumns(d, cols) ==
  LET keep == SelectSeq(d.columns, LAMBDA c : c \notin cols)
  IN [columns |-> keep,
      dtypes  |-> [c \in Range(keep) |-> d.dtypes[c]],
      index   |-> d.index,
      data    |-> [l \in DOMAIN d.data |-> [c \in Range(keep) |-> d.data[l][c]]]]

\* df[[...]]: the frame with only the columns `cols`, in that order
SelectColumns(d, cols) ==
  [columns |-> cols,
   dtypes  |-> [c \in Range(cols) |-> d.dtypes[c]],
   index   |-> d.index,
   data    |-> [l \in DOMAIN d.data |-> [c \in Range(cols) |-> d.data[l][c]]]]

\* the column as if it were df["id"] = df.index + 1
AssignIdColumn_OneBased(d) ==
  [columns |-> Append(d.columns, "id"),
   dtypes  |-> [c \in Range(d.columns) \cup {"id"} |->
                  IF c = "id" THEN "int64" ELSE d.dtypes[c]],
   index   |-> d.index,
   data    |-> [l \in DOMAIN d.data |->
                 [c \in Range(d.columns) \cup {"id"} |->
                    IF c = "id" THEN l + 1 ELSE d.data[l][c]]]]

\* df["id"] = df.index: a new last column holding each row's index label
AssignIdColumn(d) ==
  [columns |-> Append(d.columns, "id"),
   dtypes  |-> [c \in Range(d.columns) \cup {"id"} |->
                  IF c = "id" THEN "int64" ELSE d.dtypes[c]],
   index   |-> d.index,
   data    |-> [l \in DOMAIN d.data |->
                 [c \in Range(d.columns) \cup {"id"} |->
                    IF c = "id" THEN l ELSE d.data[l][c]]]]

\* the selection as if it were df[df.index.isin(labels)]: the table's order
Loc_TableOrder(d, labels) ==
  [columns |-> d.columns,
   dtypes  |-> d.dtypes,
   index   |-> SelectSeq(d.index, LAMBDA l : l \in Range(labels)),
   data    |-> [l \in Range(labels) |-> d.data[l]]]

\* df.loc[labels]: the rows with these labels, in the order given, a label
\* that is listed twice giving its row twice
Loc(d, labels) ==
  [columns |-> d.columns,
   dtypes  |-> d.dtypes,
   index   |-> labels,
   data    |-> [l \in Range(labels) |-> d.data[l]]]

\* df.drop(index=labels): the rows whose label is not listed, in their order
DropRows(d, labels) ==
  LET keep == SelectSeq(d.index, LAMBDA l : l \notin Range(labels))
  IN [columns |-> d.columns,
      dtypes  |-> d.dtypes,
      index   |-> keep,
      data    |-> [l \in Range(keep) |-> d.data[l]]]

\* df[col] as the sequence of its values in row order
Column(d, col) == [i \in 1..Len(d.index) |-> d.data[d.index[i]][col]]

\* Series.is_unique
IsUnique(s) == \A i, j \in 1..Len(s) : s[i] = s[j] => i = j

\* nlargest as if it kept the last of the rows of equal target
RECURSIVE NLargestFrom_KeepLast(_, _, _)
NLargestFrom_KeepLast(d, positions, n) ==
  IF n = 0 \/ positions = {} THEN << >>
  ELSE LET top == CHOOSE p \in positions : \A q \in positions :
                     \/ d.data[d.index[q]][Target] < d.data[d.index[p]][Target]
                     \/ /\ d.data[d.index[q]][Target] = d.data[d.index[p]][Target]
                        /\ p >= q
       IN <<d.index[top]>> \o NLargestFrom_KeepLast(d, positions \ {top}, n - 1)

\* df.nlargest(n, "highUptake_mol"): the labels of the n rows with the
\* largest target, largest first, rows of equal target in frame order
\* (keep="first"); all rows when the frame has fewer than n
RECURSIVE NLargestFrom(_, _, _)
NLargestFrom(d, positions, n) ==
  IF n = 0 \/ positions = {} THEN << >>
  ELSE LET top == CHOOSE p \in positions : \A q \in positions :
                     \/ d.data[d.index[q]][Target] < d.data[d.index[p]][Target]
                     \/ /\ d.data[d.index[q]][Target] = d.data[d.index[p]][Target]
                        /\ p <= q
       IN <<d.index[top]>> \o NLargestFrom(d, positions \ {top}, n - 1)

NLargest(d, n) == NLargestFrom(d, 1..Len(d.index), n)

\* index.difference(other): the labels not in `other`, sorted, without
\* duplicates
RECURSIVE SortedSeq(_)
SortedSeq(S) ==
  IF S = {} THEN << >>
  ELSE LET m == CHOOSE x \in S : \A y \in S : x <= y
       IN <<m>> \o SortedSeq(S \ {m})

IndexDifference(index, other) == SortedSeq(Range(index) \ Range(other))

\* a draw as if replace=True had been passed
DrawPositions_WithReplacement(n, size) == [1..size -> 1..n]

\* the outcomes of drawing `size` items of the sequence `a` without
\* replacement (DataFrame.sample(size), np.random.choice(a, size,
\* replace=False)): the positions drawn are pairwise different
DrawPositions(n, size) ==
  {p \in [1..size -> 1..n] : \A i, j \in 1..size : p[i] = p[j] => i = j}

Take(a, p) == [i \in 1..Len(p) |-> a[p[i]]]

ChoiceWithoutReplacement(a, size) == {Take(a, p) : p \in DrawPositions(Len(a), size)}

\* the orders in which iterating a Python set of column names can yield them
\* (the hash of a str differs from one interpreter process to the next)
SetIterationOrders(S) ==
  {p \in [1..Cardinality(S) -> S] : \A i, j \in 1..Cardinality(S) : p[i] = p[j] => i = j}

\* the eligible set as if select_dtypes had been given include=["float64"]
Float64ColumnSet_Include(d) ==
  Range(d.columns) \ {c \in Range(d.columns) : d.dtypes[c] = "float64"}

\* set(df.columns).difference(df.select_dtypes(exclude=["float64"]).columns)
Float64ColumnSet(d) ==
  Range(d.columns) \ {c \in Range(d.columns) : d.dtypes[c] # "float64"}

\* the assignment as if it were df.loc[idx] = np.nan
AssignNaN_WholeRow(d, idx, cols) ==
  [d EXCEPT !.data[idx] = [c \in DOMAIN d.data[idx] |-> NaN]]

\* the assignment as if it were df[cols] = np.nan
AssignNaN_WholeColumn(d, idx, cols) ==
  [d EXCEPT !.data = [l \in DOMAIN d.data |->
                        [c \in DOMAIN d.data[l] |->
                           IF c \in Range(cols) THEN NaN ELSE d.data[l][c]]]]

\* df.loc[idx, cols] = np.nan: the cells of row idx in the columns cols; a
\* label that is not in the index is appended as a new row, NaN in every
\* column (setting with enlargement)
AssignNaN(d, idx, cols) ==
  IF idx \in DOMAIN d.data
  THEN [d EXCEPT !.data[idx] = [c \in DOMAIN d.data[idx] |->
                                  IF c \in Range(cols) THEN NaN ELSE d.data[idx][c]]]
  ELSE [d EXCEPT !.index = Append(d.index, idx),
                 !.data = [l \in DOMAIN d.data \cup {idx} |->
                             IF l = idx THEN [c \in Range(d.columns) |-> NaN]
                             ELSE d.data[l]]]

\* the text to_csv writes for one cell: nothing for NaN, a decimal point for
\* a float64 column, the digits for an int64 column, the string itself
\* for an object column
Field(d, l, c) ==
  IF d.dtypes[c] = "object" THEN d.data[l][c]
  ELSE IF d.data[l][c] = NaN THEN ""
  ELSE IF d.dtypes[c] = "float64" THEN ToString(d.data[l][c]) \o ".0"
  ELSE ToString(d.data[l][c])

\* to_csv as if index=False were missing: the index is the first column
ToCsv_WithIndex(d) ==
  [header |-> <<"">> \o d.columns,
   rows   |-> [i \in 1..Len(d.index) |->
                <<ToString(d.index[i])>> \o
                  [j \in 1..Len(d.columns) |-> Field(d, d.index[i], d.columns[j])]]]

\* to_csv(path, index=False): the header row, then one row of fields per
\* frame row, the index left out
ToCsv(d) ==
  [header |-> d.columns,
   rows   |-> [i \in 1..Len(d.index) |->
                [j \in 1..Len(d.columns) |-> Field(d, d.index[i], d.columns[j])]]]

\* the solution as if its target column were filled from the id column
SolutionFrame_TargetFromId(d) ==
  LET s == SelectColumns(d, <<"id", Target>>)
  IN [columns |-> Append(s.columns, "Usage"),
      dtypes  |-> [c \in Range(s.columns) \cup {"Usage"} |->
                     IF c = "Usage" THEN "object" ELSE s.dtypes[c]],
      index   |-> s.index,
      data    |-> [l \in DOMAIN s.data |->
                    [c \in Range(s.columns) \cup {"Usage"} |->
                       IF c = "Usage" THEN "Public" ELSE s.data[l]["id"]]]]

\* solution = df_test[["id", "highUptake_mol"]].copy(); solution["Usage"] = "Public"
SolutionFrame(d) ==
  LET s == SelectColumns(d, <<"id", Target>>)
  IN [columns |-> Append(s.columns, "Usage"),
      dtypes  |-> [c \in Range(s.columns) \cup {"Usage"} |->
                     IF c = "Usage" THEN "object" ELSE s.dtypes[c]],
      index   |-> s.index,
      data    |-> [l \in DOMAIN s.data |->
                    [c \in Range(s.columns) \cup {"Usage"} |->
                       IF c = "Usage" THEN "Public" ELSE s.data[l][c]]]]

\* the maximum as if it were taken over a feature column
ColumnMax_OfFeature(d, col) ==
  CHOOSE v \in Range(Column(d, "voidFraction")) :
    \A w \in Range(Column(d, "voidFraction")) : w <= v

\* df["highUptake_mol"].min(), .max()
ColumnMin(d, col) ==
  CHOOSE v \in Range(Column(d, col)) : \A w \in Range(Column(d, col)) : v <= w

ColumnMax(d, col) ==
  CHOOSE v \in Range(Column(d, col)) : \A w \in Range(Column(d, col)) : w <= v

\* the outcomes of np.random.uniform(low, high, n) kept by the model: every
\* draw at the low end, every draw at the high end, or the two alternating
UniformOutcomes(low, high, n) ==
  {[i \in 1..n |-> low], [i \in 1..n |-> high],
   [i \in 1..n |-> IF i % 2 = 1 THEN low ELSE high]}

\* the sample submission as if its rows were sorted by id before writing
SampleSubmissionFrame_SortedById(d, values) ==
  LET s == SelectColumns(d, <<"id">>)
  IN [columns |-> Append(s.columns, Target),
      dtypes  |-> [c \in {"id", Target} |-> IF c = Target THEN "float64" ELSE s.dtypes[c]],
      index   |-> SortedSeq(Range(s.index)),
      data    |-> [l \in DOMAIN s.data |->
                    [c \in {"id", Target} |->
                       IF c = Target
                       THEN values[CHOOSE i \in 1..Len(s.index) : s.index[i] = l]
                       ELSE s.data[l][c]]]]

\* sample_submission = df_test[["id"]].copy(); sample_submission[target] = values
SampleSubmissionFrame(d, values) ==
  LET s == SelectColumns(d, <<"id">>)
  IN [columns |-> Append(s.columns, Target),
      dtypes  |-> [c \in {"id", Target} |-> IF c = Target THEN "float64" ELSE s.dtypes[c]],
      index   |-> s.index,
      data    |-> [l \in DOMAIN s.data |->
                    [c \in {"id", Target} |->
                       IF c = Target
                       THEN values[CHOOSE i \in 1..Len(s.index) : s.index[i] = l]
                       ELSE s.data[l][c]]]]

---------------------------------------------------------------------------
(* The run.  pc names the next statement; "done" is the end of the last    *)
(* cell and "aborted" a cell that raised, after which nothing runs.        *)

\* the input files the run may find: MinRows..MaxRows rows, one shape of the
\* target column, and the complete header or a header that lacks one of the
\* columns the cleaning cells drop
MissingColumns == {"none", IndexColumn, "genus", "del_capacity"}

Inputs ==
  [n : MinRows..MaxRows, shape : TargetShapes, missing : {"none"}]
    \cup [n : {MinRows}, shape : {"ascending"}, missing : MissingColumns]

NoRerun == [float64_columns |-> << >>, nan_columns |-> << >>, df |-> NoFrame,
            train_csv |-> ToCsv(NoFrame), written |-> FALSE]

Init ==
  /\ pc = "seed"
  /\ error = "none"
  /\ table \in Inputs
  /\ df = NoFrame
  /\ df_len = 0
  /\ best_row = << >>
  /\ great_rows = << >>
  /\ best_rows = << >>
  /\ additional_rows = << >>
  /\ combined_indices = << >>
  /\ df_test = NoFrame
  /\ files = << >>
  /\ float64_columns = << >>
  /\ nan_indices = << >>
  /\ loop_i = 0
  /\ num_nans = 0
  /\ nan_columns = << >>
  /\ rerun = NoRerun
  /\ draws = << >>

splitVars == <<df_len, best_row, great_rows, best_rows, additional_rows,
               combined_indices, df_test>>
corruptVars == <<float64_columns, nan_indices, loop_i, num_nans, nan_columns, rerun>>

\* np.random.seed(42)
Seed ==
  /\ pc = "seed"
  /\ pc' = "read_csv"
  /\ draws' = << >>
  /\ UNCHANGED <<error, table, df, files>>
  /\ UNCHANGED splitVars
  /\ UNCHANGED corruptVars

\* df = pd.read_csv("./data/dataset.csv")
ReadDataset ==
  /\ pc = "read_csv"
  /\ df' = ReadCsv(SelectSeq(RawColumns, LAMBDA c : c # table.missing),
                   table.n, table.shape)
  /\ pc' = "drop_index"
  /\ UNCHANGED <<error, table, files, draws>>
  /\ UNCHANGED splitVars
  /\ UNCHANGED corruptVars

\* the drop as if errors="ignore" had been passed
DropStep_IgnoreMissing(here, labels, next) ==
  /\ pc = here
  /\ df' = DropColumns(df, labels)
  /\ pc' = next
  /\ UNCHANGED <<error, table, files, draws>>
  /\ UNCHANGED splitVars
  /\ UNCHANGED corruptVars

\* df.drop(labels, axis=1, inplace=True): KeyError when a label is not a
\* column of the frame
DropStep(here, labels, next) ==
  /\ pc = here
  /\ IF labels \subseteq Range(df.columns)
     THEN /\ df' = DropColumns(df, labels)
          /\ pc' = next
          /\ error' = error
     ELSE /\ df' = df
          /\ pc' = "aborted"
          /\ error' = "KeyError"
  /\ UNCHANGED <<table, files, draws>>
  /\ UNCHANGED splitVars
  /\ UNCHANGED corruptVars

DropIndexColumn == DropStep("drop_index", {IndexColumn}, "drop_categorical")

DropCategorical ==
  DropStep("drop_categorical", Range(categorical_features), "drop_targets")

DropTargets == DropStep("drop_targets", Range(target_variables), "assign_id")

\* df_len = len(df); df["id"] = df.index
AssignId ==
  /\ pc = "assign_id"
  /\ df_len' = Len(df.index)
  /\ df' = AssignIdColumn(df)
  /\ pc' = "best_row"
  /\ UNCHANGED <<error, table, files, draws, best_row, great_rows, best_rows,
                 additional_rows, combined_indices, df_test>>
  /\ UNCHANGED corruptVars

\* best_row = df.nlargest(1, "highUptake_mol").index
BestRow ==
  /\ pc = "best_row"
  /\ best_row' = NLargest(df, 1)
  /\ pc' = "great_rows"
  /\ UNCHANGED <<error, table, df, files, draws, df_len, great_rows, best_rows,
                 additional_rows, combined_indices, df_test>>
  /\ UNCHANGED corruptVars

\* the pool as if the slice [5:] were missing
GreatPool_NoSkip(d) == NLargest(d, TopCount)

\* the rows nlargest(15, ...)[5:] leaves to sample from
GreatPool(d) ==
  LET top == NLargest(d, TopCount)
  IN SubSeq(top, SkipCount + 1, Len(top))

\* great_rows = df.nlargest(15, "highUptake_mol")[5:].sample(5).index:
\* ValueError when the slice holds fewer rows than are sampled
GreatRows ==
  /\ pc = "great_rows"
  /\ IF Len(GreatPool(df)) >= GreatCount
     THEN /\ great_rows' \in ChoiceWithoutReplacement(GreatPool(df), GreatCount)
          /\ draws' = Append(draws, "great_rows")
          /\ pc' = "best_rows"
          /\ error' = error
     ELSE /\ great_rows' = great_rows
          /\ draws' = draws
          /\ pc' = "aborted"
          /\ error' = "ValueError"
  /\ UNCHANGED <<table, df, files, df_len, best_row, best_rows,
                 additional_rows, combined_indices, df_test>>
  /\ UNCHANGED corruptVars

\* best_rows = np.concatenate((best_row, great_rows))
BestRows ==
  /\ pc = "best_rows"
  /\ best_rows' = best_row \o great_rows
  /\ pc' = "additional_rows"
  /\ UNCHANGED <<error, table, df, files, draws, df_len, best_row, great_rows,
                 additional_rows, combined_indices, df_test>>
  /\ UNCHANGED corruptVars

\* the filler as if it were drawn from the whole index
FillerPool_WholeIndex(d, anchors) == SortedSeq(Range(d.index))

\* the rows the filler is drawn from: df.index.difference(best_rows)
FillerPool(d, anchors) == IndexDifference(d.index, anchors)

\* the filler as if its size were cut down to the rows there are
AdditionalRows_Clamped ==
  /\ pc = "additional_rows"
  /\ LET pool == FillerPool(df, best_rows)
         size == HeldOutSize - Len(best_rows)
     IN additional_rows' \in
          ChoiceWithoutReplacement(pool, IF size <= Len(pool) THEN size ELSE Len(pool))
  /\ draws' = Append(draws, "additional_rows")
  /\ pc' = "combined_indices"
  /\ UNCHANGED <<error, table, df, files, df_len, best_row, great_rows, best_rows,
                 combined_indices, df_test>>
  /\ UNCHANGED corruptVars

\* additional_rows = np.random.choice(df.index.difference(best_rows),
\*     size=100 - len(best_rows), replace=False): ValueError when the size
\* is negative or larger than the population
AdditionalRows ==
  /\ pc = "additional_rows"
  /\ LET pool == FillerPool(df, best_rows)
         size == HeldOutSize - Len(best_rows)
     IN IF 0 <= size /\ size <= Len(pool)
        THEN /\ additional_rows' \in ChoiceWithoutReplacement(pool, size)
             /\ draws' = Append(draws, "additional_rows")
             /\ pc' = "combined_indices"
             /\ error' = error
        ELSE /\ additional_rows' = additional_rows
             /\ draws' = draws
             /\ pc' = "aborted"
             /\ error' = "ValueError"
  /\ UNCHANGED <<table, df, files, df_len, best_row, great_rows, best_rows,
                 combined_indices, df_test>>
  /\ UNCHANGED corruptVars

\* combined_indices = np.concatenate((best_rows, additional_rows))
\* df_test = df.loc[combined_indices]
CombinedIndices ==
  /\ pc = "combined_indices"
  /\ combined_indices' = best_rows \o additional_rows
  /\ df_test' = Loc(df, best_rows \o additional_rows)
  /\ pc' = "solution"
  /\ UNCHANGED <<error, table, df, files, draws, df_len, best_row, great_rows,
                 best_rows, additional_rows>>
  /\ UNCHANGED corruptVars

\* file.to_csv(path, index=False)
WriteFile(name, frame) == files' = (name :> ToCsv(frame)) @@ files

\* solution = df_test[["id", "highUptake_mol"]].copy()
\* solution["Usage"] = "Public"; solution.to_csv("./data/solution.csv", index=False)
WriteSolution ==
  /\ pc = "solution"
  /\ WriteFile("solution.csv", SolutionFrame(df_test))
  /\ pc' = "test"
  /\ UNCHANGED <<error, table, df, draws>>
  /\ UNCHANGED splitVars
  /\ UNCHANGED corruptVars

\* df_test.drop("highUptake_mol", axis=1).to_csv("./data/test.csv", index=False)
WriteTest ==
  /\ pc = "test"
  /\ WriteFile("test.csv", DropColumns(df_test, {Target}))
  /\ pc' = "sample_submission"
  /\ UNCHANGED <<error, table, df, draws>>
  /\ UNCHANGED splitVars
  /\ UNCHANGED corruptVars

\* minimum, maximum = df["highUptake_mol"].min(), df["highUptake_mol"].max()
\* sample_submission = df_test[["id"]].copy()
\* sample_submission["highUptake_mol"] = np.random.uniform(minimum, maximum, len(df_test))
\* sample_submission.to_csv("./data/sample_submission.csv", index=False)
WriteSampleSubmission ==
  /\ pc = "sample_submission"
  /\ \E values \in UniformOutcomes(ColumnMin(df, Target), ColumnMax(df, Target),
                                   Len(df_test.index)) :
       WriteFile("sample_submission.csv", SampleSubmissionFrame(df_test, values))
  /\ draws' = Append(draws, "sample_submission")
  /\ pc' = "drop_rows"
  /\ UNCHANGED <<error, table, df>>
  /\ UNCHANGED splitVars
  /\ UNCHANGED corruptVars

\* df.drop(index=combined_indices, inplace=True)
DropHeldOut ==
  /\ pc = "drop_rows"
  /\ df' = DropRows(df, combined_indices)
  /\ pc' = "assert"
  /\ UNCHANGED <<error, table, files, draws>>
  /\ UNCHANGED splitVars
  /\ UNCHANGED corruptVars

\* the four assert statements that end the split cell
SanityChecks(train, test, len) ==
  /\ Len(train.index) + Len(test.index) = len
  /\ IsUnique(Column(train, "id"))
  /\ IsUnique(Column(test, "id"))
  /\ Range(Column(train, "id")) \cap Range(Column(test, "id")) = {}

\* the checks as if the write of train.csv came right after them, before
\* the corruption cell
Assertions_ThenWriteTrain ==
  /\ pc = "assert"
  /\ IF SanityChecks(df, df_test, df_len)
     THEN /\ pc' = "train_csv"
          /\ error' = error
     ELSE /\ pc' = "aborted"
          /\ error' = "AssertionError"
  /\ UNCHANGED <<table, df, files, draws>>
  /\ UNCHANGED splitVars
  /\ UNCHANGED corruptVars

Assertions ==
  /\ pc = "assert"
  /\ IF SanityChecks(df, df_test, df_len)
     THEN /\ pc' = "float64_columns"
          /\ error' = error
     ELSE /\ pc' = "aborted"
          /\ error' = "AssertionError"
  /\ UNCHANGED <<table, df, files, draws>>
  /\ UNCHANGED splitVars
  /\ UNCHANGED corruptVars

---------------------------------------------------------------------------
(* The corruption cell.  `rerun` is a second execution of the notebook on   *)
(* the same input from the same seed: it receives the same draws, position  *)
(* by position, and differs only in what its own interpreter process        *)
(* decides, the iteration order of the set of column names.                 *)

\* float64_columns = list(set(df.columns).difference(
\*     df.select_dtypes(exclude=["float64"]).columns.tolist()))
Float64Columns ==
  /\ pc = "float64_columns"
  /\ float64_columns' \in SetIterationOrders(Float64ColumnSet(df))
  /\ \E other \in SetIterationOrders(Float64ColumnSet(df)) :
       rerun' = [rerun EXCEPT !.float64_columns = other, !.df = df]
  /\ pc' = "nan_indices"
  /\ UNCHANGED <<error, table, df, files, draws, nan_indices, loop_i, num_nans,
                 nan_columns>>
  /\ UNCHANGED splitVars

\* the count as if it were max(1, int(0.125 * len(df)))
NanRowCount_AtLeastOne(d) ==
  IF Len(d.index) \div NanDivisor = 0 THEN 1 ELSE Len(d.index) \div NanDivisor

\* int(0.125 * len(df))
NanRowCount(d) == Len(d.index) \div NanDivisor

\* the pool as if it were the index of the table before the drop
NanRowPool_WholeTable(d) == [i \in 1..df_len |-> i - 1]

\* the rows the corrupted rows are drawn from: df.index, after the drop
NanRowPool(d) == d.index

\* nan_indices = np.random.choice(df.index, size=int(0.125 * len(df)), replace=False)
NanIndices ==
  /\ pc = "nan_indices"
  /\ nan_indices' \in ChoiceWithoutReplacement(NanRowPool(df), NanRowCount(df))
  /\ draws' = Append(draws, "nan_indices")
  /\ loop_i' = 1
  /\ pc' = "loop"
  /\ UNCHANGED <<error, table, df, files, float64_columns, num_nans, nan_columns,
                 rerun>>
  /\ UNCHANGED splitVars

\* the draw as if the + 1 were missing
BinomialPlusOne_NoPlusOne(n) == 0..n

\* the draw as if it were binomial(n, 0.1) + 2
BinomialPlusOne_PlusTwo(n) == 2..(n + 2)

\* the values np.random.binomial(n, 0.1) + 1 can take
BinomialPlusOne(n) == 1..(n + 1)

\* the loop as if num_nans were drawn for the first row only
NumNans_DrawnOnce ==
  /\ pc = "loop"
  /\ loop_i <= Len(nan_indices)
  /\ IF loop_i = 1
     THEN /\ num_nans' \in BinomialPlusOne(Len(df.columns))
          /\ draws' = Append(draws, "num_nans")
     ELSE /\ num_nans' = num_nans
          /\ draws' = draws
  /\ pc' = "nan_columns"
  /\ UNCHANGED <<error, table, df, files, float64_columns, nan_indices, loop_i,
                 nan_columns, rerun>>
  /\ UNCHANGED splitVars

\* for idx in nan_indices:
\*     num_nans = np.random.binomial(len(df.columns), 0.1) + 1
NumNans ==
  /\ pc = "loop"
  /\ loop_i <= Len(nan_indices)
  /\ num_nans' \in BinomialPlusOne(Len(df.columns))
  /\ draws' = Append(draws, "num_nans")
  /\ pc' = "nan_columns"
  /\ UNCHANGED <<error, table, df, files, float64_columns, nan_indices, loop_i,
                 nan_columns, rerun>>
  /\ UNCHANGED splitVars

\* nan_columns = np.random.choice(float64_columns, size=num_nans, replace=False):
\* ValueError when num_nans is larger than the list
NanColumns ==
  /\ pc = "nan_columns"
  /\ IF num_nans <= Len(float64_columns)
     THEN /\ \E p \in DrawPositions(Len(float64_columns), num_nans) :
               /\ nan_columns' = Take(float64_columns, p)
               /\ rerun' = [rerun EXCEPT !.nan_columns = Take(rerun.float64_columns, p)]
          /\ draws' = Append(draws, "nan_columns")
          /\ pc' = "assign_nan"
          /\ error' = error
     ELSE /\ nan_columns' = nan_columns
          /\ rerun' = rerun
          /\ draws' = draws
          /\ pc' = "aborted"
          /\ error' = "ValueError"
  /\ UNCHANGED <<table, df, files, float64_columns, nan_indices, loop_i, num_nans>>
  /\ UNCHANGED splitVars

\* df.loc[idx, nan_columns] = np.nan
AssignNan ==
  /\ pc = "assign_nan"
  /\ df' = AssignNaN(df, nan_indices[loop_i], nan_columns)
  /\ rerun' = [rerun EXCEPT !.df = AssignNaN(rerun.df, nan_indices[loop_i],
                                             rerun.nan_columns)]
  /\ loop_i' = loop_i + 1
  /\ pc' = "loop"
  /\ UNCHANGED <<error, table, files, draws, float64_columns, nan_indices, num_nans,
                 nan_columns>>
  /\ UNCHANGED splitVars

\* the loop is over; df.head() only displays
LoopEnd ==
  /\ pc = "loop"
  /\ loop_i > Len(nan_indices)
  /\ pc' = "train_csv"
  /\ UNCHANGED <<error, table, df, files, draws>>
  /\ UNCHANGED splitVars
  /\ UNCHANGED corruptVars

\* df.to_csv("./data/train.csv", index=False)
WriteTrain ==
  /\ pc = "train_csv"
  /\ WriteFile("train.csv", df)
  /\ rerun' = [rerun EXCEPT !.train_csv = ToCsv(rerun.df), !.written = TRUE]
  /\ pc' = "done"
  /\ UNCHANGED <<error, table, df, draws, float64_columns, nan_indices, loop_i,
                 num_nans, nan_columns>>
  /\ UNCHANGED splitVars

Next ==
  \/ Seed
  \/ ReadDataset
  \/ DropIndexColumn
  \/ DropCategorical
  \/ DropTargets
  \/ AssignId
  \/ BestRow
  \/ GreatRows
  \/ BestRows
  \/ AdditionalRows
  \/ CombinedIndices
  \/ WriteSolution
  \/ WriteTest
  \/ WriteSampleSubmission
  \/ DropHeldOut
  \/ Assertions
  \/ Float64Columns
  \/ NanIndices
  \/ NumNans
  \/ NanColumns
  \/ AssignNan
  \/ LoopEnd
  \/ WriteTrain

Spec == Init /\ [][Next]_vars

---------------------------------------------------------------------------
(* Properties.                                                             *)

\* the input's value of the target column in the row labelled l
InputTarget(l) == TargetValue(table.shape, l, table.n)

\* the input's value of column c in the row labelled l
InputCell(l, c) ==
  IF c = Target THEN InputTarget(l) ELSE IF c = "id" THEN l ELSE CellValue(c, l)

InputLabels == 0..(table.n - 1)

\* the fields of the column `name` of a written file, in row order
CsvColumn(csv, name) ==
  LET j == CHOOSE k \in 1..Len(csv.header) : csv.header[k] = name
  IN [i \in 1..Len(csv.rows) |-> csv.rows[i][j]]

\* the statements after df.loc[combined_indices] and after the drop of the
\* held-out rows (a run that aborts inside the loop has passed both)
AfterCombined ==
  \/ pc \in {"solution", "test", "sample_submission", "drop_rows", "assert",
             "float64_columns", "nan_indices", "loop", "nan_columns",
             "assign_nan", "train_csv", "done"}
  \/ pc = "aborted" /\ loop_i > 0

AfterDrop ==
  \/ pc \in {"assert", "float64_columns", "nan_indices", "loop", "nan_columns",
             "assign_nan", "train_csv", "done"}
  \/ pc = "aborted" /\ loop_i > 0

\* C1: after the split the Training rows and the HeldOut rows partition the
\* table: their sizes add up to the table's, no id occurs twice in
\* Training, none twice in HeldOut, none on both sides, and no assertion
\* of the split cell fails.
C1_SplitPartitionsTable ==
  /\ error # "AssertionError"
  /\ AfterDrop =>
       /\ Len(df.index) + Len(df_test.index) = table.n
       /\ \A i, j \in 1..Len(df.index) :
            df.data[df.index[i]]["id"] = df.data[df.index[j]]["id"] => i = j
       /\ \A i, j \in 1..Len(df_test.index) :
            df_test.data[df_test.index[i]]["id"] = df_test.data[df_test.index[j]]["id"]
              => i = j
       /\ \A i \in 1..Len(df.index), j \in 1..Len(df_test.index) :
            df.data[df.index[i]]["id"] # df_test.data[df_test.index[j]]["id"]

C1_Witness ==
  /\ pc = "float64_columns"
  /\ table.n > HeldOutSize
  /\ Len(df.index) = table.n - HeldOutSize

\* C2: for a table of at least HeldOutSize rows the two samples of the
\* split succeed, and HeldOut holds exactly HeldOutSize different rows: the
\* anchors (the best row and the GreatCount great rows) and then the
\* filler, which is drawn without replacement from the rows that are not
\* anchors.
C2_HeldOutIsAnchorsPlusFiller ==
  /\ (pc = "aborted" /\ error = "ValueError" /\ loop_i = 0) => table.n < HeldOutSize
  /\ AfterCombined =>
       /\ Len(df_test.index) = HeldOutSize
       /\ Cardinality(Range(df_test.index)) = HeldOutSize
       /\ df_test.index = best_rows \o additional_rows
       /\ Len(best_rows) = 1 + GreatCount
       /\ Len(additional_rows) = HeldOutSize - (1 + GreatCount)
       /\ Cardinality(Range(additional_rows)) = Len(additional_rows)
       /\ Range(additional_rows) \cap Range(best_rows) = {}

C2_Witness ==
  /\ pc = "solution"
  /\ Len(additional_rows) >= 2
  /\ table.n > HeldOutSize

\* the largest target value of the input, and the first input row holding it
MaxTarget == CHOOSE v \in {InputTarget(l) : l \in InputLabels} :
               \A l \in InputLabels : InputTarget(l) <= v

FirstMaxRow ==
  LET top == MaxTarget
  IN CHOOSE l \in InputLabels :
       /\ InputTarget(l) = top
       /\ \A m \in InputLabels : InputTarget(m) = top => l <= m

\* whether a written file lists the id of the input row l
ListsId(name, l) == ToString(l) \in Range(CsvColumn(files[name], "id"))

\* C3 as stated: in a run that completes, a row holding the largest target
\* value is in test.csv and solution.csv and not in train.csv, also when
\* several rows share that value.
C3_MaxRowsHeldOut ==
  pc = "done" =>
    LET top == MaxTarget
    IN \A l \in InputLabels : InputTarget(l) = top =>
         /\ ListsId("test.csv", l)
         /\ ListsId("solution.csv", l)
         /\ ~ListsId("train.csv", l)

\* C3 as amended: in a run that completes, the first row in table order
\* among the rows holding the largest target value is in test.csv and
\* solution.csv and not in train.csv.
C3_FirstMaxRowHeldOut ==
  /\ pc = "done" =>
       LET first == FirstMaxRow
       IN /\ ListsId("test.csv", first)
          /\ ListsId("solution.csv", first)
          /\ ~ListsId("train.csv", first)
  /\ (AfterDrop /\ pc # "done") =>
       LET first == FirstMaxRow
       IN /\ first \in Range(df_test.index)
          /\ first \notin Range(df.index)

C3_Witness ==
  /\ pc = "done"
  /\ ListsId("test.csv", FirstMaxRow)
  /\ \E l \in InputLabels : InputTarget(l) = MaxTarget /\ ListsId("train.csv", l)

\* the rows of a written file that hold at least one empty field
RowsWithMissing(csv) ==
  {i \in 1..Len(csv.rows) : \E j \in 1..Len(csv.header) : csv.rows[i][j] = ""}

\* C4 as stated: a second execution from the same seed on the same input
\* writes a train.csv identical to the first execution's.
C4_RerunByteIdentical ==
  (pc = "done" /\ rerun.written) => rerun.train_csv = files["train.csv"]

\* the columns the claim C5 says the Corruptor leaves alone, and those it
\* does leave alone
C5_ClaimedFrame == {c \in Range(df.columns) : c \in {"id", Target} \/ df.dtypes[c] # "float64"}

C5_ActualFrame == {c \in Range(df.columns) : c = "id" \/ df.dtypes[c] # "float64"}

\* C5 as stated: no cell of id, of the target column or of a column that is
\* not float64 is changed in a Training row, so those columns of train.csv
\* hold no empty field.
C5_TargetNeverCorrupted ==
  /\ AfterDrop =>
       \A l \in Range(df.index) : \A c \in C5_ClaimedFrame : df.data[l][c] = InputCell(l, c)
  /\ pc = "done" =>
       \A c \in C5_ClaimedFrame : "" \notin Range(CsvColumn(files["train.csv"], c))

\* C5 as amended: no cell of id or of a column that is not float64 is
\* changed in a Training row; the target column is float64 and is not
\* protected.
C5_IdAndNonFloatNeverCorrupted ==
  /\ AfterDrop =>
       \A l \in Range(df.index) : \A c \in C5_ActualFrame : df.data[l][c] = InputCell(l, c)
  /\ pc = "done" =>
       \A c \in C5_ActualFrame : "" \notin Range(CsvColumn(files["train.csv"], c))

C5_Witness ==
  /\ pc = "done"
  /\ "" \in Range(CsvColumn(files["train.csv"], Target))
  /\ \E l \in Range(df.index) : df.data[l][Target] = NaN /\ df.data[l]["id"] = l

\* C6 as stated: the number of columns to blank is between 1 and the number
\* of eligible columns, so the column draw never fails and the loop never
\* aborts the run.
C6_ColumnCountClipped ==
  /\ pc = "nan_columns" => (1 <= num_nans /\ num_nans <= Len(float64_columns))
  /\ ~(pc = "aborted" /\ loop_i > 0)

\* C7 as stated: a run that has ended, completed or aborted, has written all
\* four files or none.
C7_AllFilesOrNone ==
  pc \in {"done", "aborted"} => (DOMAIN files = {} \/ DOMAIN files = FileNames)

\* C8: in a run that completes, train.csv has N - HeldOutSize rows and
\* exactly floor((N - HeldOutSize) / NanDivisor) of them hold a missing
\* marker: the selected rows are pairwise different and each got one.
C8_CorruptedRowCount ==
  pc = "done" =>
    /\ Len(files["train.csv"].rows) = table.n - HeldOutSize
    /\ Cardinality(RowsWithMissing(files["train.csv"]))
         = (table.n - HeldOutSize) \div NanDivisor
    /\ Cardinality(Range(nan_indices)) = (table.n - HeldOutSize) \div NanDivisor

C8_Witness ==
  /\ pc = "done"
  /\ Cardinality(RowsWithMissing(files["train.csv"])) = 2
  /\ Len(files["train.csv"].rows) = 4

\* C9: in train.csv no missing marker is in a column whose dtype is not
\* float64; the columns drawn for a row are all float64 columns.
C9_MarkersOnlyInFloatColumns ==
  /\ pc = "done" =>
       \A c \in Range(files["train.csv"].header) :
         df.dtypes[c] # "float64" => "" \notin Range(CsvColumn(files["train.csv"], c))
  /\ pc = "assign_nan" =>
       \A c \in Range(nan_columns) : RawDtype(c) = "float64" /\ c # "id"

C9_Witness ==
  /\ pc = "done"
  /\ RowsWithMissing(files["train.csv"]) # {}
  /\ "num_carbon" \in Range(files["train.csv"].header)
  /\ "id" \in Range(files["train.csv"].header)

\* C10: the rows drawn for corruption are Training rows, never HeldOut rows;
\* every cell of df_test keeps the input's value, and test.csv,
\* solution.csv and sample_submission.csv hold no missing marker.
C10_HeldOutStaysClean ==
  /\ Range(nan_indices) \cap Range(combined_indices) = {}
  /\ AfterCombined =>
       \A l \in Range(df_test.index) : \A c \in Range(df_test.columns) :
         df_test.data[l][c] = InputCell(l, c)
  /\ \A name \in DOMAIN files \ {"train.csv"} : RowsWithMissing(files[name]) = {}

C10_Witness ==
  /\ pc = "done"
  /\ Len(nan_indices) = 2
  /\ RowsWithMissing(files["train.csv"]) # {}
  /\ {"test.csv", "solution.csv", "sample_submission.csv"} \subseteq DOMAIN files

\* the text of an integer and of a float64 value in a written file
IntText(v) == ToString(v)

FloatText(v) == ToString(v) \o ".0"

\* C11 as stated: train.csv holds exactly the feature columns and the
\* target column, without the id column.
C11_TrainWithoutId ==
  "train.csv" \in DOMAIN files =>
    /\ files["train.csv"].header = FeatureColumns \o <<Target>>
    /\ "id" \notin Range(files["train.csv"].header)

\* C11 as amended: train.csv holds the feature columns, the target column
\* and, last, the id column added during the split; each row's id is the
\* label of its Training row.
C11_TrainKeepsId ==
  "train.csv" \in DOMAIN files =>
    /\ files["train.csv"].header = FeatureColumns \o <<Target, "id">>
    /\ CsvColumn(files["train.csv"], "id") = [i \in 1..Len(df.index) |-> IntText(df.index[i])]

C11_Witness ==
  /\ pc = "done"
  /\ Len(files["train.csv"].rows) >= 2
  /\ files["train.csv"].header[Len(files["train.csv"].header)] = "id"

\* C12: test.csv has one row per HeldOut record, in HeldOut's order, with
\* the feature columns and id and without the target column; the fields
\* are the input's values of that row.
C12_TestHasNoTarget ==
  "test.csv" \in DOMAIN files =>
    /\ files["test.csv"].header = FeatureColumns \o <<"id">>
    /\ Target \notin Range(files["test.csv"].header)
    /\ Len(files["test.csv"].rows) = HeldOutSize
    /\ \A i \in 1..Len(files["test.csv"].rows) :
         files["test.csv"].rows[i] =
           <<FloatText(InputCell(combined_indices[i], "voidFraction")),
             IntText(InputCell(combined_indices[i], "num_carbon")),
             IntText(combined_indices[i])>>

C12_Witness ==
  /\ pc = "sample_submission"
  /\ "test.csv" \in DOMAIN files
  /\ table.n > HeldOutSize

\* C13: solution.csv has one row per HeldOut record with the columns id,
\* target and Usage; Usage is "Public" in every row and the target is the
\* input's target value of the row with that id.
C13_SolutionRows ==
  "solution.csv" \in DOMAIN files =>
    /\ files["solution.csv"].header = <<"id", Target, "Usage">>
    /\ Len(files["solution.csv"].rows) = HeldOutSize
    /\ \A i \in 1..Len(files["solution.csv"].rows) :
         files["solution.csv"].rows[i] =
           <<IntText(combined_indices[i]),
             FloatText(InputTarget(combined_indices[i])),
             "Public">>

C13_Witness ==
  /\ pc = "done"
  /\ "solution.csv" \in DOMAIN files
  /\ \E l \in Range(df.index) : df.data[l][Target] = NaN

\* C14: sample_submission.csv lists the ids of test.csv, each once, in the
\* row order of test.csv.
C14_SampleSubmissionIds ==
  "sample_submission.csv" \in DOMAIN files =>
    /\ CsvColumn(files["sample_submission.csv"], "id") = CsvColumn(files["test.csv"], "id")
    /\ Cardinality(Range(CsvColumn(files["sample_submission.csv"], "id")))
         = Len(files["sample_submission.csv"].rows)
    /\ Len(files["sample_submission.csv"].rows) = Len(files["test.csv"].rows)

C14_Witness ==
  /\ pc = "drop_rows"
  /\ "sample_submission.csv" \in DOMAIN files
  /\ \E i \in 1..(HeldOutSize - 1) : combined_indices[i] > combined_indices[i + 1]

\* the smallest target value of the input
MinTarget == CHOOSE v \in {InputTarget(l) : l \in InputLabels} :
               \A l \in InputLabels : v <= InputTarget(l)

\* C15: every target value of sample_submission.csv lies between the
\* smallest and the largest target value of the whole input table.
C15_SampleSubmissionRange ==
  "sample_submission.csv" \in DOMAIN files =>
    LET texts == {FloatText(v) : v \in MinTarget..MaxTarget}
    IN \A i \in 1..Len(files["sample_submission.csv"].rows) :
         CsvColumn(files["sample_submission.csv"], Target)[i] \in texts

\* a value at each end of the whole table's range, the smallest target being
\* that of a row that is not held out
C15_Witness ==
  /\ pc = "drop_rows"
  /\ MinTarget < MaxTarget
  /\ FloatText(MinTarget) \in Range(CsvColumn(files["sample_submission.csv"], Target))
  /\ FloatText(MaxTarget) \in Range(CsvColumn(files["sample_submission.csv"], Target))
  /\ \A l \in Range(combined_indices) : InputTarget(l) > MinTarget

\* the statements of the cleaning cells
CleaningSteps == {"seed", "read_csv", "drop_index", "drop_categorical", "drop_targets"}

\* C16: when a column one of the cleaning cells drops is absent from the
\* input, the run never leaves the cleaning cells: it ends there with a
\* KeyError, in the cell that lists the column, and no file is written.
C16_MissingColumnAborts ==
  table.missing # "none" =>
    /\ DOMAIN files = {}
    /\ pc \in CleaningSteps \cup {"aborted"}
    /\ pc = "aborted" => error = "KeyError"
    /\ table.missing = IndexColumn => pc # "drop_categorical"
    /\ table.missing \in {IndexColumn, "genus"} => pc # "drop_targets"

C16_Witness ==
  /\ pc = "aborted"
  /\ error = "KeyError"
  /\ table.missing = "del_capacity"
  /\ IndexColumn \notin Range(df.columns)

\* the statements of the split cell up to the filler sample
SamplingSteps == {"assign_id", "best_row", "great_rows", "best_rows", "additional_rows"}

\* C17: for a table of fewer than HeldOutSize rows the run ends with a
\* ValueError in one of the two samples of the split cell; no HeldOut set is
\* assembled and no file is written.
C17_TooFewRowsAborts ==
  (table.missing = "none" /\ table.n < HeldOutSize) =>
    /\ DOMAIN files = {}
    /\ pc \in CleaningSteps \cup SamplingSteps \cup {"aborted"}
    /\ pc = "aborted" => error = "ValueError"
    /\ df_test = NoFrame
    /\ combined_indices = << >>

\* the filler sample is the one that fails
C17_Witness ==
  /\ pc = "aborted"
  /\ error = "ValueError"
  /\ table.n < HeldOutSize
  /\ Len(best_rows) = 1 + GreatCount
  /\ additional_rows = << >>

\* the rank of the input row l by target, largest first, rows of equal
\* target in table order
Rank(l) ==
  1 + Cardinality({m \in InputLabels :
                     \/ InputTarget(m) > InputTarget(l)
                     \/ InputTarget(m) = InputTarget(l) /\ m < l})

\* C18: the anchors are 1 + GreatCount different rows: the row of rank 1,
\* then GreatCount rows of the ranks SkipCount + 1 to TopCount; no row of
\* the ranks 2 to SkipCount is an anchor and the best row is not among
\* the great rows.
C18_AnchorsByRank ==
  best_rows # << >> =>
    /\ Len(best_rows) = 1 + GreatCount
    /\ Cardinality(Range(best_rows)) = 1 + GreatCount
    /\ best_rows = best_row \o great_rows
    /\ Rank(best_rows[1]) = 1
    /\ \A i \in 2..Len(best_rows) :
         SkipCount + 1 <= Rank(best_rows[i]) /\ Rank(best_rows[i]) <= TopCount
    /\ best_rows[1] \notin Range(great_rows)

C18_Witness ==
  /\ pc = "additional_rows"
  /\ table.shape = "tiedTop"
  /\ Rank(best_rows[1]) = 1
  /\ Rank(great_rows[1]) = TopCount

\* C19 as stated: the column count of a row lies in 1..n+1 for n the number
\* of float64 columns.
C19_CountOverEligibleColumns ==
  pc = "nan_columns" =>
    /\ 1 <= num_nans
    /\ num_nans <= Len(float64_columns) + 1

\* C19: the column count of a row is drawn as Binomial(n, 0.1) + 1 with n
\* the number of all columns of the training frame (id, target and the
\* columns that are not float64 included), so it lies in 1..n+1 for that n.
C19_CountOverAllColumns ==
  pc = "nan_columns" =>
    /\ 1 <= num_nans
    /\ num_nans <= Len(df.columns) + 1

\* the largest count is drawn, and it is beyond the float64 columns' range
C19_Witness ==
  /\ pc = "nan_columns"
  /\ num_nans = Len(df.columns) + 1
  /\ num_nans > Len(float64_columns) + 1

\* the statements of the corruption cell and the write that follows it
CorruptionSteps == {"float64_columns", "nan_indices", "loop", "nan_columns",
                    "assign_nan", "train_csv"}

\* C20: a step of the corruption changes the training frame only in the
\* assignment, and there only in the row of the current index: the cells
\* of the num_nans different chosen columns become the missing marker,
\* every other cell of that row and every cell of every other row keeps
\* its value, and no row or column is added or removed.
C20_CorruptionIsRowLocal ==
  [][(pc \in CorruptionSteps) =>
       (IF pc = "assign_nan"
        THEN LET idx == nan_indices[loop_i]
             IN /\ Len(nan_columns) = num_nans
                /\ Cardinality(Range(nan_columns)) = num_nans
                /\ df'.index = df.index
                /\ df'.columns = df.columns
                /\ \A l \in Range(df.index) : \A c \in Range(df.columns) :
                     df'.data[l][c] = IF l = idx /\ c \in Range(nan_columns)
                                      THEN NaN
                                      ELSE df.data[l][c]
        ELSE df' = df)]_vars

\* the first selected row has been assigned: one chosen cell is missing,
\* another float64 cell of that row has the input's value, and the second
\* selected row is still whole
C20_Witness ==
  /\ pc = "loop"
  /\ loop_i = 2
  /\ Len(nan_indices) = 2
  /\ num_nans = 1
  /\ df.data[nan_indices[1]][nan_columns[1]] = NaN
  /\ \E c \in Range(float64_columns) \ Range(nan_columns) :
       df.data[nan_indices[1]][c] = InputCell(nan_indices[1], c)
  /\ \A c \in Range(df.columns) :
       df.data[nan_indices[2]][c] = InputCell(nan_indices[2], c)

\* the labels of the held-out rows in the order they were put together
AssemblyOrder == best_row \o great_rows \o additional_rows

\* C21: the rows of solution.csv and of test.csv are in the order in which
\* the held-out rows were put together: the best row, then the great rows as
\* sampled, then the filler rows as sampled.
C21_FilesInAssemblyOrder ==
  /\ "solution.csv" \in DOMAIN files =>
       CsvColumn(files["solution.csv"], "id") =
         [i \in 1..Len(AssemblyOrder) |-> IntText(AssemblyOrder[i])]
  /\ "test.csv" \in DOMAIN files =>
       CsvColumn(files["test.csv"], "id") =
         [i \in 1..Len(AssemblyOrder) |-> IntText(AssemblyOrder[i])]

\* both files are written in an order that is neither ascending nor
\* descending by id and not descending by target
C21_Witness ==
  /\ pc = "done"
  /\ CsvColumn(files["test.csv"], "id") = CsvColumn(files["solution.csv"], "id")
  /\ best_row[1] > great_rows[1]
  /\ additional_rows[1] < additional_rows[2]
  /\ InputTarget(additional_rows[1]) < InputTarget(additional_rows[2])
  /\ great_rows[1] < additional_rows[2]

\* the draws of the cells before the loop, in the order of the statements
DrawsBeforeLoop == <<"great_rows", "additional_rows", "sample_submission", "nan_indices">>

\* the i-th draw of a run
ExpectedDraw(i) ==
  IF i <= Len(DrawsBeforeLoop) THEN DrawsBeforeLoop[i]
  ELSE IF (i - Len(DrawsBeforeLoop)) % 2 = 1 THEN "num_nans" ELSE "nan_columns"

\* C22: nothing is drawn before the seed is set, and the draws of a run are
\* made in the order: great rows, filler, baseline predictions, corrupted
\* rows, then for each corrupted row in turn its column count and its
\* columns; the rows come in the order of nan_indices.
C22_DrawOrder ==
  /\ pc = "seed" => draws = << >>
  /\ \A i \in 1..Len(draws) : draws[i] = ExpectedDraw(i)
  /\ loop_i > 0 =>
       /\ loop_i <= Len(nan_indices) + 1
       /\ Len(draws) = Len(DrawsBeforeLoop) + 2 * (loop_i - 1)
             + (IF pc \in {"nan_columns", "aborted"} THEN 1
                ELSE IF pc = "assign_nan" THEN 2 ELSE 0)
  /\ loop_i = 0 => Len(draws) <= Len(DrawsBeforeLoop) - 1

\* the second corrupted row's columns have been drawn
C22_Witness ==
  /\ pc = "assign_nan"
  /\ loop_i = 2
  /\ Len(draws) = Len(DrawsBeforeLoop) + 4
  /\ draws[Len(draws)] = "nan_columns"
  /\ draws[Len(draws) - 1] = "num_nans"

\* the files the split cell writes
HeldOutFiles == {"solution.csv", "test.csv", "sample_submission.csv"}

\* C23 as stated: no file is written until the split, the assertions and
\* the corruption loop have all completed.
C23_NoFileBeforeCorruptionEnds ==
  DOMAIN files # {} => pc \in {"train_csv", "done"}

\* C23: solution.csv, test.csv and sample_submission.csv are written, in
\* this order, inside the split cell: after the held-out rows are selected
\* and before they are dropped from the frame, before the assertions and
\* before the corruption cell.  Only train.csv is written after the
\* corruption loop, and a run that aborts inside the loop leaves the three
\* files of the split cell.
C23_HeldOutFilesWrittenInSplit ==
  /\ pc \in CleaningSteps \cup SamplingSteps \cup {"combined_indices", "solution"}
       => DOMAIN files = {}
  /\ pc = "test" => DOMAIN files = {"solution.csv"}
  /\ pc = "sample_submission" => DOMAIN files = {"solution.csv", "test.csv"}
  /\ pc \in {"drop_rows", "assert"} \cup CorruptionSteps => DOMAIN files = HeldOutFiles
  /\ pc = "done" => DOMAIN files = FileNames
  /\ pc = "aborted" => DOMAIN files = IF loop_i > 0 THEN HeldOutFiles ELSE {}
  /\ "train.csv" \in DOMAIN files =>
       /\ pc = "done"
       /\ loop_i = Len(nan_indices) + 1

\* the three files are there while the frame still holds every row and
\* nothing has been checked or corrupted
C23_Witness ==
  /\ pc = "drop_rows"
  /\ DOMAIN files = HeldOutFiles
  /\ Len(df.index) = df_len
  /\ Range(combined_indices) \subseteq Range(df.index)
  /\ loop_i = 0

\* the columns the cleaning cells drop
DroppedColumns ==
  {IndexColumn} \cup Range(categorical_features) \cup Range(target_variables)

\* C24: the id column exists only once every cleaning cell has run; when it
\* is assigned each row's id is its 0-based position in the cleaned table;
\* afterwards a row of the training frame or of the held-out frame keeps the
\* id and the feature values of that input row (a training cell may have
\* become missing), and after the drop the ids of the two frames together
\* are 0..N-1.
C24_IdAssignedAfterCleaningAndStable ==
  /\ "id" \in Range(df.columns) =>
       /\ pc \notin CleaningSteps \cup {"assign_id"}
       /\ Range(df.columns) \cap DroppedColumns = {}
       /\ \A l \in Range(df.index) :
            /\ l \in InputLabels
            /\ df.data[l]["id"] = l
            /\ \A c \in Range(FeatureColumns) :
                 df.data[l][c] \in {InputCell(l, c), NaN}
  /\ pc = "best_row" =>
       /\ Len(df.index) = table.n
       /\ \A i \in 1..Len(df.index) : df.data[df.index[i]]["id"] = i - 1
  /\ df_test # NoFrame =>
       \A l \in Range(df_test.index) :
         /\ df_test.data[l]["id"] = l
         /\ \A c \in Range(FeatureColumns) : df_test.data[l][c] = InputCell(l, c)
  /\ AfterDrop =>
       Range(Column(df, "id")) \cup Range(Column(df_test, "id")) = 0..(table.n - 1)

\* a completed run whose training frame does not start with id 0 and
\* holds a missing cell
C24_Witness ==
  /\ pc = "done"
  /\ Len(df.index) > 0
  /\ df.data[df.index[1]]["id"] = df.index[1]
  /\ df.index[1] # 0
  /\ \E l \in Range(df.index) : \E c \in Range(df.columns) : df.data[l][c] = NaN
  /\ Range(Column(df, "id")) \cup Range(Column(df_test, "id")) = 0..(table.n - 1)

\* C25: for a table of exactly HeldOutSize rows the filler takes every row
\* that is not an anchor, the training frame is empty after the drop, no row
\* is selected for corruption and neither a column count nor a column is
\* drawn, no statement fails, every statement before the end has a next
\* step, and the run ends with the four files written, train.csv holding
\* its header and no row.
C25_BoundaryTableCompletes ==
  (table.missing = "none" /\ table.n = HeldOutSize) =>
    /\ error = "none"
    /\ pc # "aborted"
    /\ pc # "done" => ENABLED Next
    /\ pc \notin {"nan_columns", "assign_nan"}
    /\ "num_nans" \notin Range(draws)
    /\ "nan_columns" \notin Range(draws)
    /\ AfterCombined =>
         /\ Len(additional_rows) = HeldOutSize - 1 - GreatCount
         /\ Range(additional_rows) = InputLabels \ Range(best_rows)
         /\ Range(combined_indices) = InputLabels
    /\ AfterDrop =>
         /\ df.index = << >>
         /\ Len(df_test.index) = HeldOutSize
         /\ SanityChecks(df, df_test, df_len)
    /\ loop_i > 0 => nan_indices = << >>
    /\ pc = "done" =>
         /\ DOMAIN files = FileNames
         /\ files["train.csv"].header = FeatureColumns \o <<Target, "id">>
         /\ files["train.csv"].rows = << >>
         /\ Len(files["test.csv"].rows) = HeldOutSize

C25_Witness ==
  /\ pc = "done"
  /\ table.n = HeldOutSize
  /\ DOMAIN files = FileNames
  /\ files["train.csv"].rows = << >>
  /\ draws = DrawsBeforeLoop

====
